---- MODULE Spec2Model ----
(***************************************************************************)
(* Sensitive-region redaction with backup/restore, as implemented by       *)
(* blurRegions and restoreFromBackup in src/src/extension.ts.              *)
(*                                                                         *)
(* A path is a sequence of tokens.  The token "_backup" stands for the     *)
(* seven characters of the suffix marker; no other token contains any of   *)
(* its characters in a way that could form the marker across a token       *)
(* border, so substring search for '_backup' is membership of the token.   *)
(* A file's content is the picture it was taken from (img), the set of     *)
(* pixels of it that have been blurred (px), and whether the bytes are an  *)
(* encoding written by image.write rather than the picture's own bytes.    *)
(***************************************************************************)
EXTENDS Integers, Sequences, FiniteSets, TLC

VARIABLES fs, tasks, run, mIn, mOut, text, parsed, preview, config,
          blurRadius

vars ==
  <<fs, tasks, run, mIn, mOut, text, parsed, preview, config, blurRadius>>

----------------------------------------------------------------------------
(* Bounds *)

ImgW == 2
ImgH == 2
MaxDim == 4

----------------------------------------------------------------------------
(* JavaScript numbers: an integer or NaN *)

Num(n) == [nan |-> FALSE, n |-> n]
NaN == [nan |-> TRUE, n |-> 0]

\* Math.round((a / 1000) * dim): round half up.  For the integers a of
\* -1500..1500 and dim of 1..12 the double arithmetic gives this integer.
\* Mutant of JsRoundScale: Math.floor in place of Math.round
JsFloorScale(a, dim) ==
  IF a.nan THEN NaN ELSE Num((a.n * dim) \div 1000)

JsRoundScale(a, dim) ==
  IF a.nan THEN NaN ELSE Num((2 * a.n * dim + 1000) \div 2000)

JsSub(a, b) == IF a.nan \/ b.nan THEN NaN ELSE Num(a.n - b.n)

JsMin(a, b) ==
  IF a.nan \/ b.nan THEN NaN ELSE Num(IF a.n <= b.n THEN a.n ELSE b.n)

JsMax(a, b) ==
  IF a.nan \/ b.nan THEN NaN ELSE Num(IF a.n >= b.n THEN a.n ELSE b.n)

\* v <= 0 in JavaScript: false for NaN
JsLeqZero(v) == ~v.nan /\ v.n <= 0

----------------------------------------------------------------------------
(* Paths *)

BackupMarker == "_backup"

IMAGE_EXTENSIONS == {<<".", "png">>, <<".", "jpg">>, <<".", "jpeg">>,
                     <<".", "gif">>, <<".", "webp">>, <<".", "bmp">>}

LastIndexOf(s, tok) ==
  IF \E i \in 1..Len(s) : s[i] = tok
  THEN CHOOSE i \in 1..Len(s) : s[i] = tok /\ \A j \in (i+1)..Len(s) : s[j] # tok
  ELSE 0

FirstIndexOf(s, tok) ==
  IF \E i \in 1..Len(s) : s[i] = tok
  THEN CHOOSE i \in 1..Len(s) : s[i] = tok /\ \A j \in 1..(i-1) : s[j] # tok
  ELSE 0

\* path.dirname
Dirname(p) == SubSeq(p, 1, LastIndexOf(p, "/") - 1)

\* path.basename(p)
LastPortion(p) == SubSeq(p, LastIndexOf(p, "/") + 1, Len(p))

\* path.extname: from the last '.' of the last portion, '' when there is none
\* or when it is the portion's first character
Extname(p) ==
  LET b == LastPortion(p)
      i == LastIndexOf(b, ".")
  IN IF i <= 1 THEN <<>> ELSE SubSeq(b, i, Len(b))

\* path.basename(p, ext)
Basename(p, ext) ==
  LET b == LastPortion(p)
      n == Len(b) - Len(ext)
  IN IF Len(ext) > 0 /\ n > 0 /\ SubSeq(b, n + 1, Len(b)) = ext
     THEN SubSeq(b, 1, n)
     ELSE b

\* path.join(dir, name)
Join(dir, name) == dir \o <<"/">> \o name

\* String.prototype.includes
Includes(s, tok) == \E i \in 1..Len(s) : s[i] = tok

\* String.prototype.replace(tok, ''): the first occurrence only
ReplaceFirst(s, tok) ==
  LET i == FirstIndexOf(s, tok)
  IN IF i = 0 THEN s ELSE SubSeq(s, 1, i - 1) \o SubSeq(s, i + 1, Len(s))

isImageFile(p) == Extname(p) \in IMAGE_EXTENSIONS

\* blurRegions: the backup path of imagePath
BackupPath(imagePath) ==
  LET ext == Extname(imagePath)
      baseName == Basename(imagePath, ext)
      dir == Dirname(imagePath)
  IN Join(dir, baseName \o <<BackupMarker>> \o ext)

\* restoreFromBackup: the check that the path is a backup file
IsBackupRef(backupPath) == Includes(backupPath, BackupMarker)

\* restoreFromBackup: the original path of backupPath
OriginalPath(backupPath) ==
  LET ext == Extname(backupPath)
      dir == Dirname(backupPath)
      backupBaseName == Basename(backupPath, ext)
      originalBaseName == ReplaceFirst(backupBaseName, BackupMarker)
  IN Join(dir, originalBaseName \o ext)

\* The naming convention of the interface: <name>_backup<ext>
MatchesConvention(p) ==
  LET b == Basename(p, Extname(p))
  IN Len(b) >= 1 /\ b[Len(b)] = BackupMarker

----------------------------------------------------------------------------
(* The modelled part of the file system *)

\* The base names a, a_backup, _backupa, _backupa_backup
Bases ==
  { <<"a">>, <<"a", BackupMarker>>,
    <<BackupMarker, "a">>, <<BackupMarker, "a", BackupMarker>> }
\* The files of the directory /d, and one file of a directory whose own name
\* is the marker
Paths ==
  {Join(<<"/", "d">>, b \o <<".", "png">>) : b \in Bases}
    \cup {Join(<<"/", BackupMarker>>, <<"a", ".", "png">>)}
ImagePaths == {p \in Paths : isImageFile(p)}

NoFile == [img |-> <<>>, px |-> {}, rewritten |-> FALSE]
Pixels == (0..(ImgW - 1)) \X (0..(ImgH - 1))
Pristine(p) == [img |-> p, px |-> {}, rewritten |-> FALSE]

\* fs.existsSync
existsSync(f, p) == f[p] # NoFile

\* The bytes hold a picture Jimp.read can decode
Decodable(content) == content.img # <<>>

\* What a write that failed after the file was opened leaves at the path:
\* bytes that are no complete picture
Truncated == [img |-> <<>>, px |-> {}, rewritten |-> TRUE]

\* fs.copyFileSync(src, dest) on an existing src; copying a file onto itself
\* leaves it as it is
copyFileSync(f, src, dest) == [f EXCEPT ![dest] = f[src]]

\* fs.unlinkSync
unlinkSync(f, p) == [f EXCEPT ![p] = NoFile]

\* image.write(imagePath): the buffer, encoded anew
WriteImage(f, p, buf) == [f EXCEPT ![p] = [buf EXCEPT !.rewritten = TRUE]]

\* Mutants of EnsureBackup: the copy made on every call, and never made
EnsureBackupAlways(f, imagePath) ==
  copyFileSync(f, imagePath, BackupPath(imagePath))

EnsureBackupSkipped(f, imagePath) == f

\* blurRegions: "Only create backup if it doesn't exist (first blur)".
\* Called with imagePath existing or the backup existing.
EnsureBackup(f, imagePath) ==
  IF ~existsSync(f, BackupPath(imagePath))
  THEN copyFileSync(f, imagePath, BackupPath(imagePath))
  ELSE f

----------------------------------------------------------------------------
(* Detections and the coordinate mapping of blurRegions *)

NullDetection == [isNull |-> TRUE, hasBox |-> FALSE, box |-> <<>>]
NoBoxDetection == [isNull |-> FALSE, hasBox |-> FALSE, box |-> <<>>]
BoxDetection(b) == [isNull |-> FALSE, hasBox |-> TRUE, box |-> b]

\* box_2d of integers [ymin, xmin, ymax, xmax]
IntBox(ymin, xmin, ymax, xmax) == <<Num(ymin), Num(xmin), Num(ymax), Num(xmax)>>

\* !detection.box_2d || detection.box_2d.length !== 4
HasNoValidBox(detection) == ~detection.hasBox \/ Len(detection.box) # 4

\* Mutant of ClampStart: clamped to width, not width - 1
ClampStartToDim(v, dim) == JsMax(Num(0), JsMin(v, Num(dim)))

\* x = Math.max(0, Math.min(x, width - 1))
ClampStart(v, dim) == JsMax(Num(0), JsMin(v, Num(dim - 1)))

\* Convert normalized coordinates (0-1000) to pixels, clamp to image bounds
CoordinateMapper(box, width, height) ==
  LET ymin == box[1]
      xmin == box[2]
      ymax == box[3]
      xmax == box[4]
      x0 == JsRoundScale(xmin, width)
      y0 == JsRoundScale(ymin, height)
      w0 == JsRoundScale(JsSub(xmax, xmin), width)
      h0 == JsRoundScale(JsSub(ymax, ymin), height)
      x == ClampStart(x0, width)
      y == ClampStart(y0, height)
      w == JsMin(w0, JsSub(Num(width), x))
      h == JsMin(h0, JsSub(Num(height), y))
  IN [x |-> x, y |-> y, w |-> w, h |-> h]

\* Mutant of Rejected: only negative sizes rejected (< in place of <=)
RejectedBelowZero(r) ==
  (~r.w.nan /\ r.w.n < 0) \/ (~r.h.nan /\ r.h.n < 0)

\* if (w <= 0 || h <= 0) continue
Rejected(r) == JsLeqZero(r.w) \/ JsLeqZero(r.h)

\* crop({x, y, w, h}) takes numbers; it throws on NaN
CropThrows(r) == r.x.nan \/ r.y.nan \/ r.w.nan \/ r.h.nan

\* The pixels of the image that composite(blurredRegion, x, y) replaces
RegionPixels(r, width, height) ==
  {q \in (0..(width - 1)) \X (0..(height - 1)) :
     /\ r.x.n <= q[1] /\ q[1] < r.x.n + r.w.n
     /\ r.y.n <= q[2] /\ q[2] < r.y.n + r.h.n}

\* One iteration of the for loop of blurRegions: the detection throws
\* (reading box_2d of null, or crop), is skipped, or is blurred at region
DetectionOutcome(detection, width, height) ==
  LET r == CoordinateMapper(detection.box, width, height)
      none == [x |-> Num(0), y |-> Num(0), w |-> Num(0), h |-> Num(0)]
  IN IF detection.isNull THEN [kind |-> "throws", region |-> none]
     ELSE IF HasNoValidBox(detection) THEN [kind |-> "skipped", region |-> none]
     ELSE IF Rejected(r) THEN [kind |-> "rejected", region |-> r]
     ELSE IF CropThrows(r) THEN [kind |-> "throws", region |-> r]
     ELSE [kind |-> "blurred", region |-> r]

\* The for loop of blurRegions from detection i on: the blurred pixels of the
\* buffer, regionsBlurred, and whether an exception left the loop
RECURSIVE BlurLoop(_, _, _, _)
BlurLoop(detections, i, px, regionsBlurred) ==
  IF i > Len(detections)
  THEN [px |-> px, regionsBlurred |-> regionsBlurred, threw |-> FALSE]
  ELSE LET o == DetectionOutcome(detections[i], ImgW, ImgH)
       IN IF o.kind = "throws"
          THEN [px |-> px, regionsBlurred |-> regionsBlurred, threw |-> TRUE]
          ELSE IF o.kind = "blurred"
          THEN BlurLoop(detections, i + 1,
                        px \cup RegionPixels(o.region, ImgW, ImgH),
                        regionsBlurred + 1)
          ELSE BlurLoop(detections, i + 1, px, regionsBlurred)

\* Mutant of ShouldWrite: the image written after every loop
ShouldWriteAlways(regionsBlurred) == TRUE

\* if (regionsBlurred > 0): the image is written
ShouldWrite(regionsBlurred) == regionsBlurred > 0

----------------------------------------------------------------------------
(* The text of the AI response and JSON.parse                               *)
(*                                                                         *)
(* A text is a sequence of tokens: the brackets and the comma of JSON, "{" *)
(* for the opening of an object up to its box_2d key and colon, "n" and    *)
(* "m" for two number literals, "null", "ws" for white space, "fence" for  *)
(* three backticks, "json" for the tag, "prose" for words that hold none of *)
(* these.  A parsed value is its kind and its items.                       *)

Fence == "fence"

JAtom(tok) == [t |-> tok, items |-> <<>>]
JArr(items) == [t |-> "arr", items |-> items]
JObj(items) == [t |-> "obj", items |-> items]
EmptyArr == JArr(<<>>)

\* JSON.parse threw a SyntaxError
Threw == [threw |-> TRUE, val |-> EmptyArr, rest |-> <<>>]
Returned(val, rest) == [threw |-> FALSE, val |-> val, rest |-> rest]

RECURSIVE SkipWs(_)
SkipWs(s) == IF s # <<>> /\ Head(s) = "ws" THEN SkipWs(Tail(s)) ELSE s

RECURSIVE ParseValue(_), ParseItems(_, _)
\* One JSON value at the start of s, and the tokens after it
ParseValue(s) ==
  LET u == SkipWs(s)
  IN IF u = <<>> THEN Threw
     ELSE IF Head(u) \in {"n", "m", "null"}
     THEN Returned(JAtom(Head(u)), Tail(u))
     ELSE IF Head(u) = "["
     THEN LET v == SkipWs(Tail(u))
          IN IF v # <<>> /\ Head(v) = "]"
             THEN Returned(EmptyArr, Tail(v))
             ELSE ParseItems(v, <<>>)
     ELSE IF Head(u) = "{"
     THEN LET v == SkipWs(Tail(u))
          IN IF v # <<>> /\ Head(v) = "}"
             THEN Returned(JObj(<<>>), Tail(v))
             ELSE LET member == ParseValue(v)
                      w == SkipWs(member.rest)
                  IN IF ~member.threw /\ w # <<>> /\ Head(w) = "}"
                     THEN Returned(JObj(<<member.val>>), Tail(w))
                     ELSE Threw
     ELSE Threw

\* The items of an array after its "[", up to its "]"
ParseItems(s, acc) ==
  LET item == ParseValue(s)
      u == SkipWs(item.rest)
  IN IF item.threw \/ u = <<>> THEN Threw
     ELSE IF Head(u) = ","
     THEN ParseItems(Tail(u), Append(acc, item.val))
     ELSE IF Head(u) = "]"
     THEN Returned(JArr(Append(acc, item.val)), Tail(u))
     ELSE Threw

\* JSON.parse(s): the value, or a SyntaxError
JSONparse(s) ==
  LET v == ParseValue(s)
  IN IF ~v.threw /\ SkipWs(v.rest) = <<>>
     THEN Returned(v.val, <<>>)
     ELSE Threw

----------------------------------------------------------------------------
(* parseJsonResponse (extension.ts) and parseAndValidateDetections         *)
(* (types.ts)                                                              *)

Indices(s, tok) == {i \in 1..Len(s) : s[i] = tok}
Min(S) == CHOOSE i \in S : \A j \in S : i <= j
Max(S) == CHOOSE i \in S : \A j \in S : i >= j

\* s.trim()
RECURSIVE TrimEnd(_)
TrimEnd(s) ==
  IF s # <<>> /\ s[Len(s)] = "ws" THEN TrimEnd(SubSeq(s, 1, Len(s) - 1)) ELSE s

Trim(s) == TrimEnd(SkipWs(s))

\* text.match(/```(?:json)?\s*([\s\S]*?)```/): the first fence that has a
\* fence after it, an optional json tag, white space, and the text up to the
\* next fence as group 1
FenceMatch(s) ==
  LET fences == Indices(s, Fence)
  IN IF Cardinality(fences) < 2
     THEN [matched |-> FALSE, group |-> <<>>]
     ELSE LET open == Min(fences)
              close == Min(fences \ {open})
              afterTag == IF s[open + 1] = "json" THEN open + 2 ELSE open + 1
          IN [matched |-> TRUE,
              group |-> SkipWs(SubSeq(s, afterTag, close - 1))]

\* text.match(/\[[\s\S]*\]/): from the first "[" to the last "]"
ArrayMatch(s) ==
  LET opens == Indices(s, "[")
      closes == Indices(s, "]")
  IN IF opens = {} \/ closes = {} \/ Max(closes) < Min(opens)
     THEN [matched |-> FALSE, group |-> <<>>]
     ELSE [matched |-> TRUE, group |-> SubSeq(s, Min(opens), Max(closes))]

\* What a parser call gives its caller: a value, or an exception
Result(val) == [threw |-> FALSE, val |-> val]

\* Mutant of ParseOrEmpty: JSON.parse outside any try
ParseUnguarded(s) ==
  LET p == JSONparse(s)
  IN [threw |-> p.threw, val |-> p.val]

\* try { return JSON.parse(s) } catch { return [] }
ParseOrEmpty(s) ==
  LET p == JSONparse(s)
  IN IF p.threw THEN Result(EmptyArr) ELSE Result(p.val)

parseJsonResponse(t) ==
  LET direct == JSONparse(t)
      jsonMatch == FenceMatch(t)
      arrayMatch == ArrayMatch(t)
  IN IF ~direct.threw THEN Result(direct.val)
     ELSE IF jsonMatch.matched THEN ParseOrEmpty(Trim(jsonMatch.group))
     ELSE IF arrayMatch.matched THEN ParseOrEmpty(arrayMatch.group)
     ELSE Result(EmptyArr)

\* isValidBoundingBox of types.ts, on a parsed value
isValidBoundingBox(box) ==
  /\ box.t = "obj"
  /\ Len(box.items) = 1
  /\ box.items[1].t = "arr"
  /\ Len(box.items[1].items) = 4
  /\ \A i \in 1..4 : box.items[1].items[i].t \in {"n", "m"}

parseAndValidateDetections(t) ==
  LET direct == JSONparse(t)
      jsonMatch == FenceMatch(t)
      fenced == JSONparse(Trim(jsonMatch.group))
      arrayMatch == ArrayMatch(t)
      inArray == JSONparse(arrayMatch.group)
      none == [found |-> FALSE, val |-> EmptyArr]
      got == IF ~direct.threw THEN [found |-> TRUE, val |-> direct.val]
             ELSE IF ~jsonMatch.matched THEN none
             ELSE IF ~fenced.threw THEN [found |-> TRUE, val |-> fenced.val]
             ELSE IF ~arrayMatch.matched THEN none
             ELSE IF ~inArray.threw THEN [found |-> TRUE, val |-> inArray.val]
             ELSE none
  IN IF ~got.found \/ got.val.t # "arr" THEN Result(EmptyArr)
     ELSE Result(JArr(SelectSeq(got.val.items, isValidBoundingBox)))

NotParsed ==
  [done |-> FALSE, live |-> Result(EmptyArr), typed |-> Result(EmptyArr)]

----------------------------------------------------------------------------
(* The configuration, and the webview of the detection preview             *)

\* config.get<number>('blurIntensity', 25)
DefaultBlurIntensity == 25

DefaultConfig == [blurIntensity |-> DefaultBlurIntensity]

\* Mutant of BlurRadius: clamped from 0, not from 1
BlurRadiusFromZero(blurIntensity) ==
  LET half == (blurIntensity + 1) \div 2
  IN IF half < 0 THEN 0 ELSE IF half > 100 THEN 100 ELSE half

\* Math.min(Math.max(Math.round(config.blurIntensity / 2), 1), 100), for an
\* integer intensity: Math.round takes a half to the next integer up
BlurRadius(blurIntensity) ==
  LET half == (blurIntensity + 1) \div 2
  IN IF half < 1 THEN 1 ELSE IF half > 100 THEN 100 ELSE half

\* const blurRadius of blurRegions: not evaluated yet, or its value
NoRadius == [computed |-> FALSE, value |-> 0]

\* The script of the preview: the indices marked as blurred, and the 'blur'
\* messages posted to the extension and not yet handled, oldest first
NoPreview == [blurredIndices |-> {}, messages |-> <<>>]

----------------------------------------------------------------------------
(* Operations in flight *)

Tasks == {"t1", "t2"}

\* The detection lists handed to blurRegions
FullBox == BoxDetection(IntBox(0, 0, 1000, 1000))
LeftBox == BoxDetection(IntBox(0, 0, 1000, 500))
ZeroAreaBox == BoxDetection(IntBox(500, 500, 500, 500))
ShortBox == BoxDetection(<<Num(0), Num(0), Num(1000)>>)

DetLists ==
  { <<FullBox>>, <<LeftBox>>, <<ZeroAreaBox, FullBox>>,
    <<ZeroAreaBox, NoBoxDetection, ShortBox>>,
    <<NullDetection>>, <<LeftBox, NullDetection>> }

IdleTask ==
  [pc |-> "idle", op |-> "none", path |-> <<>>, dets |-> <<>>,
   backup |-> "none", buf |-> NoFile, count |-> 0, result |-> "none"]

\* A finished operation: what it reported to the user
Done(op, result, count) ==
  [IdleTask EXCEPT !.pc = "done", !.op = op, !.result = result, !.count = count]

\* History: the calls of blurRegions on one path since the last other call.
\* pre is the image as the first of them found it, created whether the first
\* of them found no file at the backup path, n counts them up to 2.
NoRun == [path |-> <<>>, pre |-> NoFile, created |-> FALSE, n |-> 0, phase |-> "none"]

NoInput == [width |-> 0, height |-> 0, detection |-> NoBoxDetection]
NoOutput == [kind |-> "none",
             region |-> [x |-> Num(0), y |-> Num(0), w |-> Num(0), h |-> Num(0)]]

Free(t) == tasks[t].pc \in {"idle", "done"}

\* The run of redact calls on one path that a restore may follow (history)
RunAfterBlur(imagePath) ==
  IF run.phase = "redacting" /\ run.path = imagePath
  THEN [run EXCEPT !.n = IF run.n >= 2 THEN 2 ELSE run.n + 1]
  ELSE [path |-> imagePath, pre |-> fs[imagePath],
        created |-> ~existsSync(fs, BackupPath(imagePath)), n |-> 1,
        phase |-> "redacting"]

RunAfterRestore(backupPath) ==
  IF run.phase = "redacting" /\ backupPath = BackupPath(run.path)
  THEN [run EXCEPT !.phase = "restored"]
  ELSE NoRun

\* blurRegions up to its first await: the backup is ensured, then Jimp.read
\* is called.  copyFileSync throws when imagePath does not exist.
BlurRegionsCall(t, imagePath, detections) ==
  /\ Free(t)
  /\ imagePath \in ImagePaths
  /\ BackupPath(imagePath) \in Paths
  /\ LET backupPath == BackupPath(imagePath)
         call == [IdleTask EXCEPT !.op = "blur", !.path = imagePath,
                                  !.dets = detections]
     IN IF ~existsSync(fs, backupPath) /\ ~existsSync(fs, imagePath)
        THEN /\ tasks' = [tasks EXCEPT ![t] = Done("blur", "blurError", 0)]
             /\ fs' = fs
        ELSE /\ fs' = EnsureBackup(fs, imagePath)
             /\ tasks' = [tasks EXCEPT ![t] =
                            [call EXCEPT !.pc = "reading",
                               !.backup = IF existsSync(fs, backupPath)
                                          THEN "existed" ELSE "created"]]
  /\ run' = RunAfterBlur(imagePath)

\* blurRegions called by the auto-blur command
BlurBegin(t, imagePath, detections) ==
  /\ BlurRegionsCall(t, imagePath, detections)
  /\ UNCHANGED <<mIn, mOut, text, parsed, preview, config, blurRadius>>

\* Jimp.read(imagePath) completes: it throws when the file is missing or
\* holds no picture
BlurDecode(t) ==
  /\ tasks[t].pc = "reading"
  /\ tasks' = [tasks EXCEPT ![t] =
                IF Decodable(fs[tasks[t].path])
                THEN [@ EXCEPT !.pc = "decoded", !.buf = fs[tasks[t].path]]
                ELSE Done("blur", "blurError", 0)]
  /\ UNCHANGED <<fs, run, mIn, mOut, text, parsed,
               preview, config, blurRadius>>

\* The loop over the detections, and what follows it up to the await of
\* image.write
BlurComposite(t) ==
  /\ tasks[t].pc = "decoded"
  /\ LET out == BlurLoop(tasks[t].dets, 1, tasks[t].buf.px, 0)
     IN tasks' = [tasks EXCEPT ![t] =
                   IF out.threw
                   THEN Done("blur", "blurError", 0)
                   ELSE IF ShouldWrite(out.regionsBlurred)
                   THEN [@ EXCEPT !.pc = "writing", !.buf.px = out.px,
                                  !.count = out.regionsBlurred]
                   ELSE Done("blur", "noRegions", 0)]
  /\ UNCHANGED <<fs, run, mIn, mOut, text, parsed,
               preview, config, blurRadius>>

\* image.write(imagePath) completes
BlurWrite(t) ==
  /\ tasks[t].pc = "writing"
  /\ fs' = WriteImage(fs, tasks[t].path, tasks[t].buf)
  /\ tasks' = [tasks EXCEPT ![t] = Done("blur", "blurred", tasks[t].count)]
  /\ UNCHANGED <<run, mIn, mOut, text, parsed,
               preview, config, blurRadius>>

\* Jimp.read(imagePath) fails on a read error: the catch reports it
BlurDecodeFails(t) ==
  /\ tasks[t].pc = "reading"
  /\ tasks' = [tasks EXCEPT ![t] = Done("blur", "blurError", 0)]
  /\ UNCHANGED <<fs, run, mIn, mOut, text, parsed,
               preview, config, blurRadius>>

\* image.write(imagePath) fails: while encoding or opening the file, which
\* leaves the file as it was, or while writing the bytes to the file it has
\* opened and truncated.  The catch reports it.
BlurWriteFails(t) ==
  /\ tasks[t].pc = "writing"
  /\ \/ fs' = fs
     \/ fs' = [fs EXCEPT ![tasks[t].path] = Truncated]
  /\ tasks' = [tasks EXCEPT ![t] = Done("blur", "blurError", 0)]
  /\ UNCHANGED <<run, mIn, mOut, text, parsed,
               preview, config, blurRadius>>

\* restoreFromBackup(uri) with a path.  copyFileSync throws when backupPath
\* does not exist; copying a file onto itself succeeds or throws, by platform.
RestoreFromBackup(t, backupPath) ==
  /\ Free(t)
  /\ backupPath \in Paths
  /\ LET originalPath == OriginalPath(backupPath)
     IN /\ originalPath \in Paths
        /\ IF ~IsBackupRef(backupPath)
           THEN /\ tasks' = [tasks EXCEPT ![t] = Done("restore", "notBackup", 0)]
                /\ fs' = fs
           ELSE IF ~existsSync(fs, backupPath)
           THEN /\ tasks' = [tasks EXCEPT ![t] = Done("restore", "restoreError", 0)]
                /\ fs' = fs
           ELSE \/ /\ tasks' = [tasks EXCEPT ![t] = Done("restore", "restored", 0)]
                   /\ fs' = unlinkSync(copyFileSync(fs, backupPath, originalPath),
                                       backupPath)
                \/ /\ originalPath = backupPath
                   /\ tasks' = [tasks EXCEPT ![t] = Done("restore", "restoreError", 0)]
                   /\ fs' = fs
  /\ run' = RunAfterRestore(backupPath)
  /\ UNCHANGED <<mIn, mOut, text, parsed,
               preview, config, blurRadius>>

\* What a copyFileSync that throws leaves at dest: the file as it was, no
\* file (removed after the error), or bytes that are no complete picture
FailedCopyOutcomes(f, dest) ==
  {f, unlinkSync(f, dest), [f EXCEPT ![dest] = Truncated]}

\* Mutant of CatchRestore: the backup unlinked also when the copy threw
CatchRestoreUnlinks(f, backupPath) == unlinkSync(f, backupPath)

\* catch (error) of restoreFromBackup: the statements after the copy are
\* skipped and the error is shown
CatchRestore(f, backupPath) == f

\* restoreFromBackup(uri) whose copyFileSync of an existing backup throws
\* (no permission, no space, the original locked)
RestoreCopyFails(t, backupPath) ==
  /\ Free(t)
  /\ backupPath \in Paths
  /\ IsBackupRef(backupPath)
  /\ existsSync(fs, backupPath)
  /\ LET originalPath == OriginalPath(backupPath)
     IN /\ originalPath \in Paths
        /\ originalPath # backupPath
        /\ \E left \in FailedCopyOutcomes(fs, originalPath) :
             fs' = CatchRestore(left, backupPath)
  /\ tasks' = [tasks EXCEPT ![t] = Done("restore", "restoreError", 0)]
  /\ run' = NoRun
  /\ UNCHANGED <<mIn, mOut, text, parsed,
               preview, config, blurRadius>>

\* restoreFromBackup(uri) without a path
RestoreNoUri(t) ==
  /\ Free(t)
  /\ tasks' = [tasks EXCEPT ![t] = Done("restore", "noUri", 0)]
  /\ run' = NoRun
  /\ UNCHANGED <<fs, mIn, mOut, text, parsed,
               preview, config, blurRadius>>

----------------------------------------------------------------------------
(* One operation at a time: the files of the user, then any sequence of     *)
(* redact and restore calls, each run to its end before the next begins     *)

\* A picture of the user at an image path, and possibly a second picture of
\* the user whose name is the backup name of the first
Init ==
  /\ \E p1 \in ImagePaths : \E p2 \in {p1, BackupPath(p1)} \cap ImagePaths :
       fs = [p \in Paths |-> IF p \in {p1, p2} THEN Pristine(p) ELSE NoFile]
  /\ tasks = [t \in Tasks |-> IdleTask]
  /\ run = NoRun
  /\ mIn = NoInput
  /\ mOut = NoOutput
  /\ text = <<>>
  /\ parsed = NotParsed
  /\ preview = NoPreview
  /\ config = DefaultConfig
  /\ blurRadius = NoRadius

NoneInFlight == \A t \in Tasks : Free(t)

Next ==
  \/ \E p \in ImagePaths, d \in DetLists : NoneInFlight /\ BlurBegin("t1", p, d)
  \/ BlurDecode("t1")
  \/ BlurComposite("t1")
  \/ BlurWrite("t1")
  \/ \E b \in Paths : NoneInFlight /\ RestoreFromBackup("t1", b)
  \/ NoneInFlight /\ RestoreNoUri("t1")

Spec == Init /\ [][Next]_vars

\* The same operations on a filesystem whose reads and writes can fail
NextFaulty ==
  \/ Next
  \/ BlurDecodeFails("t1")
  \/ BlurWriteFails("t1")

SpecFaulty == Init /\ [][NextFaulty]_vars

----------------------------------------------------------------------------
(* The coordinate mapping alone: one detection on an image of any size      *)

CoordValues ==
  {Num(-200), Num(0), Num(1), Num(400), Num(500), Num(999), Num(1000),
   Num(1200), NaN}

MapperDetections ==
  {BoxDetection(<<a, b, c, d>>) : a \in CoordValues, b \in CoordValues,
                                  c \in CoordValues, d \in CoordValues}
    \cup {NullDetection, NoBoxDetection, ShortBox}

\* Two larger images, each with one box
ScenarioInputs ==
  {[width |-> 1000, height |-> 1000,
    detection |-> BoxDetection(IntBox(0, 0, 500, 500))],
   [width |-> 1000, height |-> 500,
    detection |-> BoxDetection(IntBox(900, 900, 1000, 1000))]}

InitMapper ==
  /\ mIn \in [width : 1..MaxDim, height : 1..MaxDim, detection : MapperDetections]
             \cup ScenarioInputs
  /\ mOut = NoOutput
  /\ text = <<>>
  /\ parsed = NotParsed
  /\ preview = NoPreview
  /\ config = DefaultConfig
  /\ blurRadius = NoRadius
  /\ fs = [p \in Paths |-> NoFile]
  /\ tasks = [t \in Tasks |-> IdleTask]
  /\ run = NoRun

\* One iteration of the loop of blurRegions on the detection
MapDetection ==
  /\ mOut.kind = "none"
  /\ mOut' = DetectionOutcome(mIn.detection, mIn.width, mIn.height)
  /\ UNCHANGED <<fs, tasks, run, mIn, text, parsed,
               preview, config, blurRadius>>

NextMapper == MapDetection

SpecMapper == InitMapper /\ [][NextMapper]_vars

----------------------------------------------------------------------------
(* The response parser alone: one text, parsed once                        *)

MaxTextLen == 4

TextTokens ==
  {"[", "]", "{", "}", ",", "n", "null", "ws", Fence, "json", "prose"}

\* Every text of at most MaxTextLen tokens
ArbitraryTexts ==
  UNION {[1..n -> TextTokens] : n \in 0..MaxTextLen}

\* JSON.stringify(v), with a space after each comma
RECURSIVE Stringify(_), StringifyItems(_, _)
Stringify(v) ==
  IF v.t = "arr" THEN <<"[">> \o StringifyItems(v.items, 1) \o <<"]">>
  ELSE IF v.t = "obj" THEN <<"{">> \o StringifyItems(v.items, 1) \o <<"}">>
  ELSE <<v.t>>

StringifyItems(items, i) ==
  IF i > Len(items) THEN <<>>
  ELSE IF i = Len(items) THEN Stringify(items[i])
  ELSE Stringify(items[i]) \o <<",", "ws">> \o StringifyItems(items, i + 1)

\* Two detections { "box_2d": [four numbers] }
Detection1 == JObj(<<JArr(<<JAtom("n"), JAtom("n"), JAtom("m"), JAtom("m")>>)>>)
Detection2 == JObj(<<JArr(<<JAtom("m"), JAtom("n"), JAtom("m"), JAtom("n")>>)>>)

\* Well-formed arrays of valid detections
DetectionArrays ==
  {JArr(<<>>), JArr(<<Detection1>>), JArr(<<Detection1, Detection2>>),
   JArr(<<Detection2, Detection1>>)}

\* Explanatory prose: plain words, or words that cite an item as "[n]"
ProseParts ==
  {<<"prose", "ws">>, <<"prose", "ws", "[", "n", "]", "ws", "prose", "ws">>}

\* The array alone
BareTexts(a) == {Stringify(a)}

\* The array inside a fenced code block, with or without the json tag
FencedTexts(a) ==
  {<<Fence>> \o tag \o <<"ws">> \o Stringify(a) \o <<"ws", Fence>> :
     tag \in {<<>>, <<"json">>}}

\* The array surrounded by prose, with no fence
ProseTexts(a) ==
  {before \o Stringify(a) \o <<"ws">> \o after :
     before \in ProseParts, after \in ProseParts}

\* A fenced code block whose inner text is not JSON: the array follows the
\* block, or sits inside it after some words
BrokenFenceTexts(a) ==
  {<<Fence, "ws", "prose", "ws", Fence, "ws">> \o Stringify(a),
   <<Fence, "ws", "prose", "ws">> \o Stringify(a) \o <<"ws", Fence>>}

EnvelopeTexts ==
  UNION {BareTexts(a) \cup FencedTexts(a) \cup ProseTexts(a)
           \cup BrokenFenceTexts(a) : a \in DetectionArrays}

InitParser ==
  /\ text \in ArbitraryTexts \cup EnvelopeTexts
  /\ parsed = NotParsed
  /\ preview = NoPreview
  /\ config = DefaultConfig
  /\ blurRadius = NoRadius
  /\ mIn = NoInput
  /\ mOut = NoOutput
  /\ fs = [p \in Paths |-> NoFile]
  /\ tasks = [t \in Tasks |-> IdleTask]
  /\ run = NoRun

\* The response text goes through both parsers
ParseResponse ==
  /\ ~parsed.done
  /\ parsed' = [done |-> TRUE,
                live |-> parseJsonResponse(text),
                typed |-> parseAndValidateDetections(text)]
  /\ UNCHANGED <<fs, tasks, run, mIn, mOut, text, preview, config, blurRadius>>

NextParser == ParseResponse

SpecParser == InitParser /\ [][NextParser]_vars

----------------------------------------------------------------------------
(* The detection preview: its Blur buttons post 'blur' messages, and the    *)
(* handler of the panel calls blurRegions for each, without waiting for the *)
(* call before it.  The auto-blur command can be run on the same image.      *)

\* showDetectionPreview(context, imagePath, detections, ...): the image of the
\* panel and its detections
PreviewPath == Join(<<"/", "d">>, <<"a", ".", "png">>)
RightBox == BoxDetection(IntBox(0, 500, 1000, 1000))
PreviewDetections == <<LeftBox, RightBox, ZeroAreaBox, NoBoxDetection>>

\* boxes: the indices of the detections that get a box and a Blur button
Boxes(detections) ==
  {i \in 1..Len(detections) : ~HasNoValidBox(detections[i])}

\* The members of a set of indices in the order of boxes
RECURSIVE Ascending(_)
Ascending(S) ==
  IF S = {} THEN <<>>
  ELSE LET least == CHOOSE i \in S : \A j \in S : i <= j
       IN <<least>> \o Ascending(S \ {least})

\* indices.map(i => detections[i]).filter(Boolean)
SelectedDetections(detections, indices) ==
  LET mapped == [k \in 1..Len(indices) |->
                   IF indices[k] \in 1..Len(detections)
                   THEN detections[indices[k]] ELSE NullDetection]
      IsPresent(d) == ~d.isNull
  IN SelectSeq(mapped, IsPresent)

\* markAsBlurred(index) for each index of a posted message
MarkAsBlurred(indices) ==
  [blurredIndices |-> preview.blurredIndices \cup {indices[k] : k \in 1..Len(indices)},
   messages |-> Append(preview.messages, indices)]

\* blurOne(index) of the script, on a button not yet marked: the message is
\* posted and the detection is marked at once
blurOne(index) ==
  /\ index \in Boxes(PreviewDetections)
  /\ index \notin preview.blurredIndices
  /\ preview' = MarkAsBlurred(<<index>>)
  /\ UNCHANGED <<fs, tasks, run, mIn, mOut, text, parsed, config, blurRadius>>

\* blurAll() of the script with a box not yet marked
blurAll ==
  LET indices == Ascending(Boxes(PreviewDetections) \ preview.blurredIndices)
  IN /\ indices # <<>>
     /\ preview' = MarkAsBlurred(indices)
     /\ UNCHANGED <<fs, tasks, run, mIn, mOut, text, parsed, config, blurRadius>>

\* panel.webview.onDidReceiveMessage with the oldest 'blur' message, up to the
\* first await of blurRegions
OnDidReceiveMessage(t) ==
  /\ preview.messages # <<>>
  /\ Free(t)
  /\ LET selectedDetections ==
           SelectedDetections(PreviewDetections, Head(preview.messages))
     IN IF Len(selectedDetections) > 0
        THEN BlurRegionsCall(t, PreviewPath, selectedDetections)
        ELSE UNCHANGED <<fs, tasks, run>>
  /\ preview' = [preview EXCEPT !.messages = Tail(@)]
  /\ UNCHANGED <<mIn, mOut, text, parsed, config, blurRadius>>

\* The picture of the user, not yet redacted
InitPreview ==
  /\ fs = [p \in Paths |-> IF p = PreviewPath THEN Pristine(p) ELSE NoFile]
  /\ tasks = [t \in Tasks |-> IdleTask]
  /\ run = NoRun
  /\ mIn = NoInput
  /\ mOut = NoOutput
  /\ text = <<>>
  /\ parsed = NotParsed
  /\ preview = NoPreview
  /\ config = DefaultConfig
  /\ blurRadius = NoRadius

NextPreview ==
  \/ \E i \in 1..Len(PreviewDetections) : blurOne(i)
  \/ blurAll
  \/ \E t \in Tasks : OnDidReceiveMessage(t)
  \/ \E t \in Tasks : BlurBegin(t, PreviewPath, <<FullBox>>)
  \/ \E t \in Tasks : BlurDecode(t)
  \/ \E t \in Tasks : BlurComposite(t)
  \/ \E t \in Tasks : BlurWrite(t)

SpecPreview == InitPreview /\ [][NextPreview]_vars

\* The preview, and restoreFromBackup run on the backup of its image at any
\* time: restoreFromBackup has no await and runs between any two steps of
\* the redact operations
NextOverlap ==
  \/ NextPreview
  \/ \E t \in Tasks : RestoreFromBackup(t, BackupPath(PreviewPath))

SpecOverlap == InitPreview /\ [][NextOverlap]_vars

\* The auto-blur command and restoreFromBackup on one image, with a
\* copyFileSync of the restore that can throw
NextRestore ==
  \/ \E t \in Tasks, d \in {<<FullBox>>, <<LeftBox>>} :
       BlurBegin(t, PreviewPath, d)
  \/ \E t \in Tasks : BlurDecode(t)
  \/ \E t \in Tasks : BlurComposite(t)
  \/ \E t \in Tasks : BlurWrite(t)
  \/ \E t \in Tasks : RestoreFromBackup(t, BackupPath(PreviewPath))
  \/ \E t \in Tasks : RestoreCopyFails(t, BackupPath(PreviewPath))

SpecRestore == InitPreview /\ [][NextRestore]_vars

----------------------------------------------------------------------------
(* The blur radius alone: one configured intensity                         *)

MaxIntensity == 250

\* Configured intensities: around 0, over the whole range of the radius, and
\* very large ones
Intensities ==
  ((0 - MaxIntensity)..MaxIntensity)
    \cup {1000 * MaxIntensity, 0 - 1000 * MaxIntensity}

InitRadius ==
  /\ config \in [blurIntensity : Intensities]
  /\ blurRadius = NoRadius
  /\ preview = NoPreview
  /\ text = <<>>
  /\ parsed = NotParsed
  /\ mIn = NoInput
  /\ mOut = NoOutput
  /\ fs = [p \in Paths |-> NoFile]
  /\ tasks = [t \in Tasks |-> IdleTask]
  /\ run = NoRun

\* The first statements of blurRegions
ComputeBlurRadius ==
  /\ blurRadius = NoRadius
  /\ blurRadius' = [computed |-> TRUE, value |-> BlurRadius(config.blurIntensity)]
  /\ UNCHANGED <<fs, tasks, run, mIn, mOut, text, parsed, preview, config>>

NextRadius == ComputeBlurRadius

SpecRadius == InitRadius /\ [][NextRadius]_vars

----------------------------------------------------------------------------
(* Properties *)

InFlight(t) == tasks[t].pc \in {"reading", "decoded", "writing"}

\* A step of the redact call of task t
BlurStep(t) == BlurDecode(t) \/ BlurComposite(t) \/ BlurWrite(t)

\* No detection of the list yields a region that is blurred
NoValidRegion(detections) ==
  \A i \in 1..Len(detections) :
    DetectionOutcome(detections[i], ImgW, ImgH).kind # "blurred"

\* The paths blurRegions is called with
RedactPaths == {p \in ImagePaths : BackupPath(p) \in Paths}

\* C1 (as claimed): after one or more redact calls on an existing image p,
\* the first of which created p's backup, and then a successful restore of
\* p's backup file, p holds the bytes it held before the first of those calls.
C1_Reversibility ==
  (/\ run.phase = "restored"
   /\ run.created /\ run.pre # NoFile
   /\ tasks["t1"].result = "restored")
    => fs[run.path] = run.pre

\* C2: during the redact calls on a path the file at its backup path is never
\* rewritten once it exists, and when the first of them created it, it holds
\* the image's bytes from before that call, whatever the calls did to the image.
C2_IdempotentBackup ==
  /\ [](run.phase = "redacting" /\ run.created /\ run.pre # NoFile
          => fs[BackupPath(run.path)] = run.pre)
  /\ [][\A p \in RedactPaths :
          (/\ existsSync(fs, BackupPath(p))
           /\ \/ \E d \in DetLists : BlurBegin("t1", p, d)
              \/ \E t \in Tasks : tasks[t].path = p /\ BlurStep(t))
            => fs'[BackupPath(p)] = fs[BackupPath(p)]]_vars

\* C2 witness: the second redact call on a path is about to write, the first
\* one having created the backup and changed the image.
C2_Witness ==
  /\ run.phase = "redacting" /\ run.n = 2 /\ run.created
  /\ tasks["t1"].pc = "writing" /\ tasks["t1"].backup = "existed"
  /\ fs[run.path] # run.pre
  /\ tasks["t1"].buf.px # fs[run.path].px

C4_RestoreLifecycle ==
  [][/\ \A p \in RedactPaths :
          (/\ run.phase = "redacting" /\ run.path = p /\ run.created
           /\ RestoreFromBackup("t1", BackupPath(p))
           /\ tasks'["t1"].result = "restored")
            => /\ fs'[p] = fs[BackupPath(p)]
               /\ ~existsSync(fs', BackupPath(p))
     /\ \A q \in Paths :
          (existsSync(fs, q) /\ ~existsSync(fs', q))
            => \E b \in Paths : RestoreFromBackup("t1", b)
     /\ \A p \in RedactPaths :
          (/\ run.phase = "restored" /\ run.path = p
           /\ tasks["t1"].result = "restored" /\ existsSync(fs, p)
           /\ \E d \in DetLists : BlurBegin("t1", p, d))
            => /\ fs'[BackupPath(p)] = fs[p]
               /\ \A q \in Paths \ {BackupPath(p)} : fs'[q] = fs[q]]_vars

\* C5 (as claimed): with no operation in flight, an image whose first redact
\* call created its backup and that holds redacted content has a backup file
\* that holds its bytes from before any redaction.
C5_BackupRecord ==
  (\A t \in Tasks : Free(t)) =>
    \A p \in RedactPaths :
      (run.phase # "none" /\ run.path = p /\ run.created /\ fs[p].px # {})
        => fs[BackupPath(p)] = [fs[p] EXCEPT !.px = {}, !.rewritten = FALSE]

\* C6 (as claimed): a restore on a path whose file name is not of the form
\* <name>_backup<ext> reports an error and changes no file.
C6_InvalidBackupReference ==
  [][\A b \in Paths :
       (RestoreFromBackup("t1", b) /\ ~MatchesConvention(b))
         => /\ fs' = fs
            /\ tasks'["t1"].result \in {"notBackup", "restoreError"}]_vars

\* C7 (as claimed): when restore is called on the backup path that redact
\* derived for an image p, the original path restore computes is p.
C7_NamingRoundTrip ==
  (run.phase = "restored" /\ run.pre # NoFile)
    => OriginalPath(BackupPath(run.path)) = run.path

\* C8 (as claimed): a redact call on an existing image whose list has no
\* detection yielding a valid region leaves the image as it was and reports
\* zero regions, not an error.
C8_ZeroRegionsNoOp ==
  [][/\ \A p \in RedactPaths : \A d \in DetLists :
          (BlurBegin("t1", p, d) /\ NoValidRegion(d) /\ existsSync(fs, p))
            => fs'[p] = fs[p] /\ tasks'["t1"].result # "blurError"
     /\ \A t \in Tasks :
          (BlurStep(t) /\ NoValidRegion(tasks[t].dets)
             /\ existsSync(fs, tasks[t].path))
            => /\ fs' = fs
               /\ tasks'[t].result # "blurError"
               /\ tasks'[t].pc = "done"
                    => tasks'[t].result = "noRegions" /\ tasks'[t].count = 0]_vars

\* C9 (as claimed): a redact call in which zero regions are valid leaves the
\* file system exactly as it was: no file written, none created.
C9_PersistsNothing ==
  [][/\ \A p \in RedactPaths : \A d \in DetLists :
          (BlurBegin("t1", p, d) /\ NoValidRegion(d)) => fs' = fs
     /\ \A t \in Tasks :
          (BlurStep(t) /\ NoValidRegion(tasks[t].dets)) => fs' = fs]_vars

\* C9 (amended): a redact call in which zero regions are valid changes no
\* file but the backup of imagePath, which it creates as a copy of the image
\* when there is none and leaves as it is otherwise.
C9_WritesOnlyNewBackup ==
  [][/\ \A p \in RedactPaths : \A d \in DetLists :
          (BlurBegin("t1", p, d) /\ NoValidRegion(d))
            => /\ \A q \in Paths \ {BackupPath(p)} : fs'[q] = fs[q]
               /\ fs'[BackupPath(p)] =
                    IF existsSync(fs, BackupPath(p)) THEN fs[BackupPath(p)]
                    ELSE fs[p]
     /\ \A t \in Tasks :
          (BlurStep(t) /\ NoValidRegion(tasks[t].dets)) => fs' = fs]_vars

\* C9 witness: a first redact call on an image has ended with no valid
\* region, and the backup it created holds the image's bytes.
C9_Witness ==
  /\ run.phase = "redacting" /\ run.n = 1 /\ run.created /\ run.pre # NoFile
  /\ tasks["t1"].pc = "done" /\ tasks["t1"].result = "noRegions"
  /\ fs[BackupPath(run.path)] = run.pre
  /\ fs[run.path] = run.pre

\* A box of integers in [0,1000] with xMax > xMin and yMax > yMin
InRangeBox(detection) ==
  /\ detection.hasBox /\ Len(detection.box) = 4
  /\ \A i \in 1..4 : /\ ~detection.box[i].nan
                      /\ 0 <= detection.box[i].n /\ detection.box[i].n <= 1000
  /\ detection.box[4].n > detection.box[2].n
  /\ detection.box[3].n > detection.box[1].n

\* The region lies inside the image
InsideImage(r, width, height) ==
  /\ 0 <= r.x.n /\ 0 <= r.y.n
  /\ r.x.n + r.w.n <= width /\ r.y.n + r.h.n <= height

\* C10 (as claimed): an in-range box with xMax > xMin and yMax > yMin is not
\* rejected and its region lies inside the image with width, height > 0.
C10_MapperKeepsInRangeBox ==
  (mOut.kind # "none" /\ InRangeBox(mIn.detection))
    => /\ mOut.kind = "blurred"
       /\ InsideImage(mOut.region, mIn.width, mIn.height)
       /\ mOut.region.w.n > 0 /\ mOut.region.h.n > 0

\* C10 (amended): for such a box the region lies inside the image, and the
\* detection is kept, with width, height > 0, exactly when its scaled width
\* and height both round to at least 1; otherwise it is rejected.
C10_MapperInsideImage ==
  (mOut.kind # "none" /\ InRangeBox(mIn.detection))
    => LET box == mIn.detection.box
           w0 == JsRoundScale(JsSub(box[4], box[2]), mIn.width)
           h0 == JsRoundScale(JsSub(box[3], box[1]), mIn.height)
       IN /\ mOut.kind \in {"blurred", "rejected"}
          /\ InsideImage(mOut.region, mIn.width, mIn.height)
          /\ mOut.kind = "blurred" <=> (w0.n >= 1 /\ h0.n >= 1)
          /\ mOut.kind = "blurred"
               => mOut.region.w.n > 0 /\ mOut.region.h.n > 0

\* C10 witness: an in-range box has been mapped to a region whose start was
\* clamped to the last pixel column.
C10_Witness ==
  /\ mOut.kind = "blurred" /\ InRangeBox(mIn.detection)
  /\ mOut.region.x.n = mIn.width - 1
  /\ JsRoundScale(mIn.detection.box[2], mIn.width).n = mIn.width

\* A box of length 4 with xMax <= xMin or yMax <= yMin
DegenerateBox(detection) ==
  /\ detection.hasBox /\ Len(detection.box) = 4
  /\ \/ /\ ~detection.box[4].nan /\ ~detection.box[2].nan
        /\ detection.box[4].n <= detection.box[2].n
     \/ /\ ~detection.box[3].nan /\ ~detection.box[1].nan
        /\ detection.box[3].n <= detection.box[1].n

\* C11: a degenerate box (xMax <= xMin or yMax <= yMin), on an image of any
\* size, is rejected by the size test: the loop continues without counting it
\* and without an exception.
C11_DegenerateRejected ==
  (mOut.kind # "none" /\ DegenerateBox(mIn.detection))
    => /\ mOut.kind = "rejected"
       /\ Rejected(mOut.region)

\* C11 witness: the zero-area box [500,500,500,500] has been mapped and
\* rejected with width 0 and height 0.
C11_Witness ==
  /\ mOut.kind = "rejected"
  /\ mIn.detection = ZeroAreaBox
  /\ mOut.region.w.n = 0 /\ mOut.region.h.n = 0

\* The detection passed both continue tests of the loop: crop is called on
\* its region
ReachesCrop(detection, outcome) ==
  /\ ~detection.isNull
  /\ outcome.kind \in {"blurred", "throws"}

\* C12 (as claimed): whatever the values of a box of length 4, the rectangle
\* handed to crop is made of numbers with 0 <= x < width, 0 <= y < height,
\* w >= 1, h >= 1, x + w <= width and y + h <= height.
C12_CropInsideImage ==
  (mOut.kind # "none" /\ ReachesCrop(mIn.detection, mOut))
    => LET r == mOut.region
       IN /\ ~r.x.nan /\ ~r.y.nan /\ ~r.w.nan /\ ~r.h.nan
          /\ 0 <= r.x.n /\ r.x.n < mIn.width
          /\ 0 <= r.y.n /\ r.y.n < mIn.height
          /\ r.w.n >= 1 /\ r.h.n >= 1
          /\ r.x.n + r.w.n <= mIn.width
          /\ r.y.n + r.h.n <= mIn.height

\* A box of four numbers with xMax > xMin and yMax > yMin that lies entirely
\* outside the normalized range [0,1000] on one axis
OutsideBox(detection) ==
  /\ detection.hasBox /\ Len(detection.box) = 4
  /\ \A i \in 1..4 : ~detection.box[i].nan
  /\ detection.box[4].n > detection.box[2].n
  /\ detection.box[3].n > detection.box[1].n
  /\ \/ detection.box[2].n >= 1000
     \/ detection.box[1].n >= 1000
     \/ detection.box[4].n <= 0
     \/ detection.box[3].n <= 0

\* C13 (as claimed): a box lying entirely outside the image bounds is
\* rejected: its width or height ends <= 0 and no pixel is blurred for it.
C13_OutsideBoxRejected ==
  (mOut.kind # "none" /\ OutsideBox(mIn.detection))
    => /\ mOut.kind = "rejected"
       /\ Rejected(mOut.region)

\* k is v / 1000 * dim rounded to the nearest integer, halves rounded up
IsRounded(k, v, dim) ==
  /\ 1000 * (2 * k - 1) <= 2 * v * dim
  /\ 2 * v * dim < 1000 * (2 * k + 1)

\* The integer that v / 1000 * dim rounds to, for v in -2000..2000
Rounded(v, dim) ==
  CHOOSE k \in (0 - 2 * dim)..(2 * dim) : IsRounded(k, v, dim)

\* clamp(v, lo, hi)
Clamp(v, lo, hi) == IF v < lo THEN lo ELSE IF v > hi THEN hi ELSE v

\* The region of the reference formulas followed by the clamps
ReferenceRegion(box, width, height) ==
  LET x == Clamp(Rounded(box[2].n, width), 0, width - 1)
      y == Clamp(Rounded(box[1].n, height), 0, height - 1)
      w0 == Rounded(box[4].n - box[2].n, width)
      h0 == Rounded(box[3].n - box[1].n, height)
  IN [x |-> Num(x), y |-> Num(y),
      w |-> Num(IF w0 < width - x THEN w0 ELSE width - x),
      h |-> Num(IF h0 < height - y THEN h0 ELSE height - y)]

NumericBox(detection) ==
  /\ detection.hasBox /\ Len(detection.box) = 4
  /\ \A i \in 1..4 : ~detection.box[i].nan

\* C14: for a box of four numbers the region computed by the loop equals
\* x = round(xMin/1000*W), y = round(yMin/1000*H),
\* width = round((xMax-xMin)/1000*W), height = round((yMax-yMin)/1000*H)
\* followed by the clamps; box [0,0,500,500] on a 1000x1000 image maps to
\* (0, 0, 500, 500) and box [900,900,1000,1000] on a 1000x500 image maps to
\* (900, 450, 100, 50).
C14_ReferenceFormulas ==
  (mOut.kind # "none" /\ NumericBox(mIn.detection))
    => /\ mOut.kind \in {"rejected", "blurred"}
       /\ mOut.region
            = ReferenceRegion(mIn.detection.box, mIn.width, mIn.height)
       /\ (mIn.width = 1000 /\ mIn.height = 1000
             /\ mIn.detection = BoxDetection(IntBox(0, 0, 500, 500)))
            => mOut.region
                 = [x |-> Num(0), y |-> Num(0), w |-> Num(500), h |-> Num(500)]
       /\ (mIn.width = 1000 /\ mIn.height = 500
             /\ mIn.detection = BoxDetection(IntBox(900, 900, 1000, 1000)))
            => mOut.region
                 = [x |-> Num(900), y |-> Num(450), w |-> Num(100), h |-> Num(50)]

\* C14 witness: box [900,900,1000,1000] on the 1000x500 image has been mapped
\* to (900, 450, 100, 50) and is blurred.
C14_Witness ==
  /\ mOut.kind = "blurred"
  /\ mIn.width = 1000 /\ mIn.height = 500
  /\ mIn.detection = BoxDetection(IntBox(900, 900, 1000, 1000))
  /\ mOut.region = [x |-> Num(900), y |-> Num(450), w |-> Num(100), h |-> Num(50)]

\* C15 (as claimed): a well-formed array of valid detections comes back
\* unchanged from parseJsonResponse when the text is the array alone, the
\* array in a fenced code block (with or without the json tag), or the array
\* surrounded by prose with no fence.
C15_ParserRecoversArray ==
  parsed.done
    => \A a \in DetectionArrays :
         text \in BareTexts(a) \cup FencedTexts(a) \cup ProseTexts(a)
           => parsed.live = Result(a)

\* No strategy of parseJsonResponse can parse JSON from the text
NoStrategyParses(t) ==
  /\ JSONparse(t).threw
  /\ FenceMatch(t).matched => JSONparse(Trim(FenceMatch(t).group)).threw
  /\ ArrayMatch(t).matched => JSONparse(ArrayMatch(t).group).threw

\* C16: for a text from which no strategy can parse JSON, both parsers
\* return the empty array and raise no exception.
C16_UnparseableGivesEmpty ==
  (parsed.done /\ NoStrategyParses(text))
    => /\ parsed.live = Result(EmptyArr)
       /\ parsed.typed = Result(EmptyArr)

\* C16 witness: a text with a fenced block whose content is not JSON, and
\* with no array in it either, has been parsed to the empty array.
C16_Witness ==
  /\ parsed.done /\ NoStrategyParses(text)
  /\ FenceMatch(text).matched
  /\ Trim(FenceMatch(text).group) # <<>>
  /\ ~ArrayMatch(text).matched
  /\ parsed.live = Result(EmptyArr)

\* A non-null record whose box_2d is present, has exactly 4 elements, and
\* has all 4 elements numeric
ValidRecord(detection) ==
  /\ ~detection.isNull
  /\ detection.hasBox
  /\ Len(detection.box) = 4
  /\ \A i \in 1..4 : ~detection.box[i].nan

\* C17 (as claimed): the loop of blurRegions keeps a record for coordinate
\* mapping if and only if it is a non-null object whose box_2d is present,
\* has exactly 4 elements, all of them numeric; every other record is
\* skipped before any coordinate mapping.
C17_ValidatorKeepsValid ==
  mOut.kind # "none"
    => IF ValidRecord(mIn.detection)
       THEN mOut.kind \in {"rejected", "blurred"}
       ELSE mOut.kind = "skipped"

\* The detections of the list that, taken alone, yield a region to blur
ValidIndices(detections) ==
  {i \in 1..Len(detections) :
     DetectionOutcome(detections[i], ImgW, ImgH).kind = "blurred"}

\* The pixels of the regions of those detections
ValidPixels(detections) ==
  UNION {RegionPixels(DetectionOutcome(detections[i], ImgW, ImgH).region,
                      ImgW, ImgH) : i \in ValidIndices(detections)}

\* C18 (as claimed): when the list of a redact call holds at least one valid
\* detection, whatever invalid records it also holds, the loop ends with
\* every valid region blurred in the buffer, the count equal to the number
\* of valid detections, and the image about to be written.
C18_InvalidNeverAborts ==
  [][\A t \in Tasks :
       (BlurComposite(t) /\ ValidIndices(tasks[t].dets) # {})
         => /\ tasks'[t].pc = "writing"
            /\ tasks'[t].count = Cardinality(ValidIndices(tasks[t].dets))
            /\ tasks'[t].buf.px
                 = tasks[t].buf.px \cup ValidPixels(tasks[t].dets)]_vars

\* C19 (as claimed): when decoding or writing the image fails during a
\* redact call, the call ends in an explicit failure and the image file
\* holds exactly the bytes it held before: no other content is ever left at
\* imagePath.
C19_IoFailureLeavesImage ==
  [][\A t \in Tasks :
       (BlurDecodeFails(t) \/ BlurWriteFails(t))
         => /\ tasks'[t].result = "blurError"
            /\ fs'[tasks[t].path] = fs[tasks[t].path]]_vars

\* C20 (as claimed): the loop of a redact call ends with the image about to
\* be written exactly when at least one detection of the list yields a valid
\* region; the write happens once, after the loop, with every valid region in
\* the buffer, and the count then reported is the number of those detections.
C20_CountAndWrite ==
  [][\A t \in Tasks :
       LET n == Cardinality(ValidIndices(tasks[t].dets))
       IN /\ BlurComposite(t)
               => /\ tasks'[t].pc = "writing" <=> n >= 1
                  /\ fs' = fs
          /\ BlurWrite(t)
               => /\ n >= 1
                  /\ tasks'[t].result = "blurred"
                  /\ tasks'[t].count = n
                  /\ ValidPixels(tasks[t].dets) \subseteq fs'[tasks[t].path].px
                  /\ tasks'[t].pc = "done"]_vars

\* The ordered fallback chain: the text itself, else the inner text of a
\* fenced block, else the bracketed substring, each tried when the one
\* before it fails; empty when all three fail
FallbackChain(t) ==
  LET direct == JSONparse(t)
      fenced == JSONparse(Trim(FenceMatch(t).group))
      bracketed == JSONparse(ArrayMatch(t).group)
  IN IF ~direct.threw THEN Result(direct.val)
     ELSE IF FenceMatch(t).matched /\ ~fenced.threw THEN Result(fenced.val)
     ELSE IF ArrayMatch(t).matched /\ ~bracketed.threw
     THEN Result(bracketed.val)
     ELSE Result(EmptyArr)

\* C22 (as claimed): parseJsonResponse returns what the ordered fallback
\* chain returns: the bracketed-array search is attempted when no fenced
\* block is present and also when a fenced block is present but its inner
\* text fails to parse.
C22_FallbackChain ==
  parsed.done => parsed.live = FallbackChain(text)

\* C23 (as claimed): whatever the text, valid JSON that is not an array
\* included, parseJsonResponse returns an array, on which the callers'
\* detections.length and their loops are defined.
C23_ParserReturnsArray ==
  parsed.done => (~parsed.live.threw /\ parsed.live.val.t = "arr")

\* C29 (as claimed): for a box of four numbers, the region that is blurred
\* starts no further left than round(xMin/1000*W), ends no further right
\* than round(xMax/1000*W), and likewise stays within the rounded y range.
C29_RegionInsideProjection ==
  (mOut.kind = "blurred" /\ NumericBox(mIn.detection))
    => LET box == mIn.detection.box
           r == mOut.region
       IN /\ Rounded(box[2].n, mIn.width) <= r.x.n
          /\ r.x.n + r.w.n <= Rounded(box[4].n, mIn.width)
          /\ Rounded(box[1].n, mIn.height) <= r.y.n
          /\ r.y.n + r.h.n <= Rounded(box[3].n, mIn.height)

\* C24: for every configured integer intensity the radius computed by
\* blurRegions is round(intensity / 2) clamped into [1, 100]: an integer
\* between 1 and 100, equal to the half rounded to the nearest integer when
\* that lies strictly between the limits, and never smaller than the radius
\* of a smaller intensity.
C24_BlurRadiusClamped ==
  blurRadius.computed
    => LET i == config.blurIntensity
           r == blurRadius.value
       IN /\ r \in 1..100
          /\ r = 1 => i < 3
          /\ r = 100 => i >= 199
          /\ r \in 2..99 => (2 * r - 1 <= i /\ i < 2 * r + 1)
          /\ \A j \in Intensities : j <= i => BlurRadius(j) <= r

\* C24 witness: the default intensity 25 has given the radius 13.
C24_Witness ==
  /\ config.blurIntensity = DefaultBlurIntensity
  /\ blurRadius.computed
  /\ blurRadius.value = 13

\* A redact operation between its call of Jimp.read and the end of its write
Redacting(t) == tasks[t].pc \in {"reading", "decoded", "writing"}

\* C21: no two redact operations on the same image path interleave: a second
\* redact on a path does not begin its decode while a first redact on that
\* path is between its decode and the end of its write.
C21_NoInterleavedRedacts ==
  \A t \in Tasks, u \in Tasks :
    (t # u /\ Redacting(t) /\ Redacting(u)) => tasks[t].path # tasks[u].path

\* C25: overlapping blur requests lose no update: a redact operation of the
\* preview's image that completes its write leaves on disk every region
\* that the operations completed before it had redacted, together with the
\* regions of its own detections.
C25_NoLostUpdate ==
  [][\A t \in Tasks :
       (BlurWrite(t) /\ tasks[t].path = PreviewPath)
         => /\ fs[PreviewPath].px \subseteq fs'[PreviewPath].px
            /\ ValidPixels(tasks[t].dets) \subseteq fs'[PreviewPath].px]_vars

\* C27: under every interleaving of redact operations on one path the backup
\* is never a copy of an already-redacted image: whenever it exists it holds
\* the bytes the path had before any write, and a call that found a backup
\* has not replaced it.
C27_BackupNeverRedacted ==
  existsSync(fs, BackupPath(PreviewPath))
    => fs[BackupPath(PreviewPath)] = Pristine(PreviewPath)

\* C27 witness: two redact operations in flight on the image after a write
\* of it; the later ones found the backup and the backup exists.
C27_Witness ==
  /\ fs[PreviewPath].rewritten
  /\ fs[PreviewPath].px # {}
  /\ \A t \in Tasks : Redacting(t) /\ tasks[t].backup = "existed"
  /\ existsSync(fs, BackupPath(PreviewPath))

\* The preview is at rest: no message waits and no operation is in flight
PreviewAtRest == preview.messages = <<>> /\ NoneInFlight

\* The region of detection i of the preview is redacted in the image file
RedactedOnDisk(i) ==
  LET o == DetectionOutcome(PreviewDetections[i], ImgW, ImgH)
  IN /\ o.kind = "blurred"
     /\ RegionPixels(o.region, ImgW, ImgH) \subseteq fs[PreviewPath].px

\* C28: in the detection preview a detection is shown as blurred only if its
\* region has been redacted in the image file: once the operations have
\* finished, every detection marked as blurred is redacted on disk.
C28_MarkedOnlyIfRedacted ==
  PreviewAtRest => \A i \in preview.blurredIndices : RedactedOnDisk(i)

\* C26: a restore that completes while a redact on the same original path is
\* in flight never leaves the file redacted with no backup: once no
\* operation is in flight, a redacted image file has a backup that holds
\* its pristine bytes.
C26_RedactedHasBackup ==
  (NoneInFlight /\ fs[PreviewPath].px # {})
    => fs[BackupPath(PreviewPath)] = Pristine(PreviewPath)

\* C30: if copying the backup over the original fails during restore, the
\* backup file is not deleted and the restore ends in an error: a restore
\* whose copy fails leaves the backup as it was and reports the error, and
\* the backup is removed only by a restore that has copied it over the
\* original.
C30_FailedRestoreKeepsBackup ==
  [][LET backupPath == BackupPath(PreviewPath)
     IN /\ \A t \in Tasks :
             RestoreCopyFails(t, backupPath)
               => /\ fs'[backupPath] = fs[backupPath]
                  /\ tasks'[t].result = "restoreError"
        /\ (existsSync(fs, backupPath) /\ ~existsSync(fs', backupPath))
             => /\ fs'[PreviewPath] = fs[backupPath]
                /\ \E t \in Tasks :
                     tasks'[t] = Done("restore", "restored", 0)]_vars

\* C30 witness: a restore has ended in an error with the original damaged by
\* the failed copy, and the backup still holds the pristine bytes.
C30_Witness ==
  /\ \E t \in Tasks : tasks[t] = Done("restore", "restoreError", 0)
  /\ fs[PreviewPath] = Truncated
  /\ fs[BackupPath(PreviewPath)] = Pristine(PreviewPath)

====
